---- MODULE Spec2Model ----
(***************************************************************************)
(* A model of the glue application bootstrap (src/glue.go, second file of  *)
(* the listing, lines 365-740): NewApp with its options, the bundle        *)
(* dependency resolver, bundle registration, and Execute.                  *)
(***************************************************************************)
EXTENDS Integers, Sequences, FiniteSets, TLC

\* ------------------------------------------------------------------------
\* Bounds of the model

\* number of distinct bundle names that can occur in an input
NumNames == 3
\* longest DependsOn() list of one bundle
MaxDeps == 2
\* total number of DependsOn() entries over all bundles of an input
MaxEdges == 3
\* longest option list handed to NewApp in the mixed-option inputs
MaxOptions == 2
\* number of concurrent callers of Execute, each calling once
NumCallers == 2
\* number of signals the process receives
MaxSignals == 2
\* number of concurrent clients of the registry
NumClients == 2

AllNames == <<"a", "b", "c", "d", "e">>
NameSeq == SubSeq(AllNames, 1, IF NumNames <= Len(AllNames) THEN NumNames ELSE Len(AllNames))
Names == {NameSeq[i] : i \in 1..Len(NameSeq)}

\* ------------------------------------------------------------------------
\* Values

\* the container definition names, glue.go:419-431
DefCliRoot == "cli.cmd.root"
DefCliVersion == "cli.cmd.version"
DefContext == "context"
DefRegistry == "registry"

\* error values; Nil is Go's nil error
Err(kind, name, dep) == [kind |-> kind, name |-> name, dep |-> dep]
Nil == Err("nil", "", "")
ErrNilContext == Err("nil context", "", "")
ErrDuplicate(name) == Err("two bundles with the same name", name, "")
ErrCircular(name) == Err("has circular dependency of itself", name, "")
ErrSelf(name) == Err("can not depends on itself", name, "")
ErrUnresolved(name, dep) == Err("has unresoled dependency", name, dep)
ErrScopes == Err("scopes", "", "")
\* the errors a bundle's Build may return (glue_test.go:110 "fake error")
BuildErrs == {Err("build", "fake error", ""), Err("build", "other error", "")}

\* `for _, x := range s { if x == name ... }`
InSeq(x, s) == \E i \in 1..Len(s) : s[i] = x

\* a bundle: Name(), DependsOn() (empty for a plain Bundle) and the identity
\* of the object
Bundle(name, ref, dependsOn) == [name |-> name, ref |-> ref, dependsOn |-> dependsOn]

\* a context is the chain of its derivations, base first
CtxNode(op, key, val, id) == [op |-> op, key |-> key, val |-> val, id |-> id]
Background == <<CtxNode("background", "", "", 0)>>
CallerCtx == <<CtxNode("caller", "", "", 0)>>
NilCtx == <<>>

\* an option value
Opt(kind, bs, c, sc, v) == [kind |-> kind, bundles |-> bs, ctx |-> c, scopes |-> sc, version |-> v]
OptContext(c) == Opt("Context", <<>>, c, <<>>, "")
OptBundles(bs) == Opt("Bundles", bs, NilCtx, <<>>, "")
OptScopes(sc) == Opt("Scopes", <<>>, NilCtx, sc, "")
OptVersion(v) == Opt("Version", <<>>, NilCtx, <<>>, v)

\* ------------------------------------------------------------------------
\* State

VARIABLES
    options,     \* the arguments of NewApp
    pc,          \* NewApp's position
    optIdx,      \* index of the option NewApp applies next
    a,           \* the app struct: ctx, scopes, bundles, builder
    todo,        \* bundles the range loop of registerBundles has not visited
    resolved,    \* registerBundles' resolved slice
    unresolved,  \* registerBundles' unresolved slice
    frames,      \* the call stack of resolveDependencies
    regIdx,      \* index into resolved of the register loop
    building,    \* the bundles whose Build has been called and has not returned
    built,       \* the Build calls that returned, in order, with their result
    retErr,      \* NewApp's returned error
    retApp,      \* NewApp returned an application handle
    mux,         \* app.mux: the caller holding it, 0 if free
    epc,         \* each caller's position in Execute
    err,         \* each call's named result err
    container,   \* each call's container: "none", "built", "deleted"
    listener,    \* each call's signal goroutine: "none", "waiting", "done"
    sigChan,     \* each call's sigChan: the number of buffered signals
    canceled,    \* the cancel functions that have fired
    events,      \* what each call's deferred teardown has done, in order
    registry,    \* the values of the registry
    nsig,        \* the number of signals the process has received
    errBefore,   \* each call's err when its deferred teardown started
    closeErr,    \* what each call's container.Delete() returned
    fired,       \* how often each call's done channel has been closed
    root,        \* each call's root.Execute(): "none", "prerun", "body",
                 \* "finished", "returned"
    args,        \* the command each call's arguments name
    cmdCtx,      \* the context each call's commands got from the container
    stdout,      \* what each call has printed
    rw,          \* registry.mux: its writer (0 if none) and its readers
    cpc,         \* each registry client's position in Get or Set
    cop,         \* each registry client's call
    cret,        \* what each registry client's Get is about to return
    lastSet      \* under each key, the value of the last Set that returned

newVars == <<options, pc, optIdx, todo, resolved, unresolved, frames, regIdx,
             building, built, retErr, retApp>>
callVars == <<mux, epc, err, container, listener, sigChan, canceled, events, nsig>>
runVars == <<errBefore, closeErr, fired, root, args, cmdCtx, stdout>>
regVars == <<rw, cpc, cop, cret, lastSet>>
execVars == <<callVars, registry, runVars, regVars>>
vars == <<newVars, a, execVars>>

\* ------------------------------------------------------------------------
\* Inputs

\* the DependsOn() lists of a bundle, at most n entries
DepLists(n) == UNION {[1..k -> Names] : k \in 0..n}

Min(x, y) == IF x <= y THEN x ELSE y

\* the dependency graphs over the first k names: a function from these names
\* to their DependsOn() lists, with at most budget entries in total
RECURSIVE Graphs(_, _)
Graphs(k, budget) ==
    IF k = 0 THEN {<<>>}
    ELSE UNION {{Append(g, l) : g \in Graphs(k - 1, budget - Len(l))} :
                  l \in DepLists(Min(MaxDeps, budget))}

\* one Bundles option supplying the bundles of a graph
GraphOptions(g) ==
    <<OptBundles([i \in 1..Len(g) |-> Bundle(NameSeq[i], 1, g[i])])>>

GraphInputs == {GraphOptions(g) : g \in UNION {Graphs(k, MaxEdges) : k \in 0..NumNames}}

\* the options of the mixed inputs
OptionPool ==
    { OptContext(NilCtx), OptContext(CallerCtx),
      OptScopes(<<"app", "request">>), OptScopes(<<"app", "app">>),
      OptVersion("1.2.3"),
      OptBundles(<<Bundle("a", 1, <<>>)>>),
      OptBundles(<<Bundle("a", 2, <<"b">>)>>),
      OptBundles(<<Bundle("b", 1, <<>>), Bundle("b", 2, <<"b">>)>>),
      OptBundles(<<Bundle("b", 1, <<"a">>)>>) }

MixedInputs == UNION {[1..k -> OptionPool] : k \in 0..MaxOptions}

\* the bundle sets of TestBundles (glue_test.go:29-72), and a diamond whose
\* bundle b names its dependency twice
TestInputs ==
    { <<OptBundles(<<Bundle("a", 1, <<>>), Bundle("b", 1, <<>>)>>)>>,
      <<OptBundles(<<Bundle("a", 1, <<>>), Bundle("b", 1, <<>>),
                     Bundle("c", 1, <<"a", "b">>)>>)>>,
      <<OptBundles(<<Bundle("a", 1, <<>>), Bundle("a", 2, <<>>)>>)>>,
      <<OptBundles(<<Bundle("a", 1, <<>>), Bundle("b", 1, <<>>),
                     Bundle("c", 1, <<"a", "c">>)>>)>>,
      <<OptBundles(<<Bundle("a", 1, <<>>), Bundle("b", 1, <<>>),
                     Bundle("c", 1, <<"a", "d">>)>>)>>,
      <<OptBundles(<<Bundle("a", 1, <<>>), Bundle("b", 1, <<"c">>),
                     Bundle("c", 1, <<"a", "b">>)>>)>>,
      <<OptBundles(<<Bundle("a", 1, <<>>), Bundle("b", 1, <<"a", "a">>),
                     Bundle("c", 1, <<"a">>), Bundle("d", 1, <<"b", "c">>)>>)>> }

Inputs == GraphInputs \cup MixedInputs \cup TestInputs

\* the inputs of the applications that Execute is called on
ExecInputs ==
    { <<>>,
      <<OptContext(CallerCtx), OptVersion("1.2.3")>> }

\* the inputs of the applications whose commands are run: those of
\* TestExecute (glue_test.go:169-185), the Version option next to a Context
\* option, in both orders, and an application with bundles
RunInputs ==
    { <<>>,
      <<OptVersion("1.2.3")>>,
      <<OptContext(CallerCtx), OptVersion("1.2.3")>>,
      <<OptVersion("1.2.3"), OptContext(CallerCtx)>>,
      <<OptBundles(<<Bundle("a", 1, <<>>), Bundle("b", 1, <<"a">>)>>)>> }

Callers == 1..NumCallers

\* the keys of the registry the program writes
RegistryKeys == {"app.path", "cli.cmd", "cli.args"}

Clients == 1..NumClients

\* the keys and values the registry's clients use
ClientKeys == {"cli.cmd", "cli.args"}
ClientValues == {"x", "y"}

\* ------------------------------------------------------------------------
\* NewApp: the options

\* withValue, glue.go:731-734
withValue(c, key, value) == Append(c, CtxNode("value", key, value, 0))

\* a Context option that stores the context before it looks at it
ContextStoredFirst(c, app) ==
    [app |-> [app EXCEPT !.ctx = c], err |-> IF c = NilCtx THEN ErrNilContext ELSE Nil]

\* Context option, glue.go:444-453
Context(c, app) ==
    IF c = NilCtx THEN [app |-> app, err |-> ErrNilContext]
    ELSE [app |-> [app EXCEPT !.ctx = c], err |-> Nil]

\* a Bundles option that does not look for the name and overwrites
RECURSIVE BundlesOverwriting(_, _)
BundlesOverwriting(bs, app) ==
    IF bs = <<>> THEN [app |-> app, err |-> Nil]
    ELSE BundlesOverwriting(Tail(bs),
           [app EXCEPT !.bundles =
              [n \in DOMAIN @ \cup {Head(bs).name} |->
                 IF n = Head(bs).name THEN Head(bs) ELSE @[n]]])

\* Bundles option, glue.go:456-468
RECURSIVE Bundles(_, _)
Bundles(bs, app) ==
    IF bs = <<>> THEN [app |-> app, err |-> Nil]
    ELSE IF Head(bs).name \in DOMAIN app.bundles
         THEN [app |-> app, err |-> ErrDuplicate(Head(bs).name)]
         ELSE Bundles(Tail(bs),
                      [app EXCEPT !.bundles = @ @@ (Head(bs).name :> Head(bs))])

\* Scopes option, glue.go:471-476
Scopes(sc, app) == [app |-> [app EXCEPT !.scopes = sc], err |-> Nil]

\* Version option, glue.go:479-484
Version(v, app) ==
    [app |-> [app EXCEPT !.ctx = withValue(@, "app.version", v)], err |-> Nil]

\* an apply whose error is dropped
applyDroppingError(o, app) ==
    [app |-> (CASE o.kind = "Context" -> Context(o.ctx, app)
                [] o.kind = "Bundles" -> Bundles(o.bundles, app)
                [] o.kind = "Scopes" -> Scopes(o.scopes, app)
                [] o.kind = "Version" -> Version(o.version, app)).app,
     err |-> Nil]

\* optionFunc.apply, glue.go:737-739
apply(o, app) ==
    CASE o.kind = "Context" -> Context(o.ctx, app)
      [] o.kind = "Bundles" -> Bundles(o.bundles, app)
      [] o.kind = "Scopes" -> Scopes(o.scopes, app)
      [] o.kind = "Version" -> Version(o.version, app)

\* `return nil, err` of NewApp
Fail(e) ==
    /\ pc' = "returned"
    /\ retErr' = e
    /\ retApp' = FALSE

\* NewApp, glue.go:494-499: one iteration of the option loop
ApplyOption ==
    /\ pc = "options"
    /\ optIdx <= Len(options)
    /\ LET r == apply(options[optIdx], a) IN
         /\ a' = r.app
         /\ IF r.err # Nil
            THEN Fail(r.err) /\ UNCHANGED optIdx
            ELSE optIdx' = optIdx + 1 /\ UNCHANGED <<pc, retErr, retApp>>
    /\ UNCHANGED <<options, todo, resolved, unresolved, frames, regIdx, building, built>>
    /\ UNCHANGED execVars

\* di.NewBuilder rejects a scope list that names a scope twice
\* (glue_test.go:127-132)
ScopesOk(sc) == \A i, j \in 1..Len(sc) : sc[i] = sc[j] => i = j

\* NewApp, glue.go:501-504
NewBuilder ==
    /\ pc = "options"
    /\ optIdx > Len(options)
    /\ IF ScopesOk(a.scopes)
       THEN pc' = "initBuilder" /\ UNCHANGED <<retErr, retApp>>
       ELSE Fail(ErrScopes)
    /\ UNCHANGED <<options, optIdx, a, todo, resolved, unresolved, frames, regIdx,
                   building, built>>
    /\ UNCHANGED execVars

\* initBuilder, glue.go:571-659, and the start of registerBundles,
\* glue.go:662-667
InitBuilder ==
    /\ pc = "initBuilder"
    /\ a' = [a EXCEPT !.builder = <<DefCliRoot, DefCliVersion, DefContext, DefRegistry>>]
    /\ pc' = "resolve"
    /\ todo' = DOMAIN a.bundles
    /\ resolved' = <<>>
    /\ unresolved' = <<>>
    /\ UNCHANGED <<options, optIdx, frames, regIdx, building, built, retErr, retApp>>
    /\ UNCHANGED execVars

\* ------------------------------------------------------------------------
\* registerBundles and resolveDependencies

\* a DependsOn loop that is left after its first dependency
DependsOnFirstOnly(name) ==
    SubSeq(a.bundles[name].dependsOn, 1, Min(1, Len(a.bundles[name].dependsOn)))

\* v.DependsOn(), glue.go:696
DependsOn(name) == a.bundles[name].dependsOn

Top == frames[Len(frames)]

\* the caller's loop goes on to its next dependency
NextDep(fs) ==
    IF fs = <<>> THEN fs ELSE [fs EXCEPT ![Len(fs)].i = @ + 1]

\* an entry that takes a bundle on the active path for resolved
EnterIgnoringActive(name) ==
    IF InSeq(name, unresolved)
    THEN /\ frames' = NextDep(frames)
         /\ UNCHANGED <<unresolved, pc, retErr, retApp>>
    ELSE /\ unresolved' = Append(unresolved, name)
         /\ frames' = Append(frames, [bundle |-> name, i |-> 1])
         /\ UNCHANGED <<pc, retErr, retApp>>

\* an entry that does not look at the active path
EnterUnchecked(name) ==
    /\ unresolved' = Append(unresolved, name)
    /\ frames' = Append(frames, [bundle |-> name, i |-> 1])
    /\ UNCHANGED <<pc, retErr, retApp>>

\* resolveDependencies, glue.go:687-693: the entry of a call for bundle name
Enter(name) ==
    IF InSeq(name, unresolved)
    THEN /\ Fail(ErrCircular(name))
         /\ frames' = <<>>
         /\ UNCHANGED unresolved
    ELSE /\ unresolved' = Append(unresolved, name)
         /\ frames' = Append(frames, [bundle |-> name, i |-> 1])
         /\ UNCHANGED <<pc, retErr, retApp>>

\* registerBundles, glue.go:669-673: the range loop picks a bundle, in the
\* order the map yields them
RangeBundles ==
    /\ pc = "resolve"
    /\ frames = <<>>
    /\ \E name \in todo :
         /\ todo' = todo \ {name}
         /\ Enter(name)
    /\ UNCHANGED <<options, optIdx, a, resolved, regIdx, building, built>>
    /\ UNCHANGED execVars

\* a loop that passes over the bundle's own name
SelfDependencySkipped(name) ==
    /\ frames' = NextDep(frames)
    /\ UNCHANGED <<unresolved, pc, retErr, retApp>>

\* resolveDependencies, glue.go:697-699: the dependency is the bundle itself
SelfDependency(name) ==
    /\ Fail(ErrSelf(Top.bundle))
    /\ frames' = <<>>
    /\ UNCHANGED unresolved

\* a loop that passes over a name that is no bundle
UnknownDependencySkipped(name) ==
    /\ frames' = NextDep(frames)
    /\ UNCHANGED <<unresolved, pc, retErr, retApp>>

\* resolveDependencies, glue.go:701-703: the dependency is no bundle of the map
UnknownDependency(name) ==
    /\ Fail(ErrUnresolved(Top.bundle, name))
    /\ frames' = <<>>
    /\ UNCHANGED unresolved

\* resolveDependencies, glue.go:695-708: one iteration of the DependsOn loop
DepStep ==
    /\ pc = "resolve"
    /\ frames # <<>>
    /\ Top.i <= Len(DependsOn(Top.bundle))
    /\ LET name == DependsOn(Top.bundle)[Top.i] IN
         IF Top.bundle = name
         THEN SelfDependency(name)
         ELSE IF name \notin DOMAIN a.bundles
              THEN UnknownDependency(name)
              ELSE Enter(name)
    /\ UNCHANGED <<options, optIdx, a, todo, resolved, regIdx, building, built>>
    /\ UNCHANGED execVars

\* an append that does not look for the name
AppendResolvedAlways(res, name) == Append(res, name)

\* resolveDependencies, glue.go:713-719
AppendResolved(res, name) == IF InSeq(name, res) THEN res ELSE Append(res, name)

\* a return that leaves the bundle on the active path
PopUnresolvedForgotten(u) == u

\* resolveDependencies, glue.go:711: the bundle is taken off unresolved
PopUnresolved(u) == SubSeq(u, 1, Len(u) - 1)

\* the call returns nil to its caller
Pop(fs) == NextDep(SubSeq(fs, 1, Len(fs) - 1))

\* resolveDependencies, glue.go:711-721: the DependsOn loop is over
Return ==
    /\ pc = "resolve"
    /\ frames # <<>>
    /\ Top.i > Len(DependsOn(Top.bundle))
    /\ unresolved' = PopUnresolved(unresolved)
    /\ resolved' = AppendResolved(resolved, Top.bundle)
    /\ frames' = Pop(frames)
    /\ UNCHANGED <<options, pc, optIdx, a, todo, regIdx, building, built, retErr, retApp>>
    /\ UNCHANGED execVars

\* a range loop left after its first bundle
RangeOverEarly == frames = <<>> /\ todo # DOMAIN a.bundles

\* registerBundles, glue.go:669-673: the range loop has visited every bundle
RangeOver == frames = <<>> /\ todo = {}

\* registerBundles, glue.go:673-676: the range loop is over, the register
\* loop starts
RangeDone ==
    /\ pc = "resolve"
    /\ RangeOver
    /\ pc' = "register"
    /\ regIdx' = 1
    /\ UNCHANGED <<options, optIdx, a, todo, resolved, unresolved, frames, building,
                   built, retErr, retApp>>
    /\ UNCHANGED execVars

\* a register loop that walks resolved backwards
NextToBuildReversed == resolved[Len(resolved) + 1 - regIdx]

\* registerBundles, glue.go:676: the bundle the register loop is at
NextToBuild == resolved[regIdx]

\* registerBundles, glue.go:676-677: Build of the next resolved bundle is
\* called; the loop stands still until it returns
BuildCall ==
    /\ pc = "register"
    /\ building = {}
    /\ regIdx <= Len(resolved)
    /\ building' = building \cup {NextToBuild}
    /\ UNCHANGED <<options, pc, optIdx, a, todo, resolved, unresolved, frames, regIdx,
                   built, retErr, retApp>>
    /\ UNCHANGED execVars

\* a register loop that goes on after a Build error
BuildReturnedIgnored(e) ==
    /\ regIdx' = regIdx + 1
    /\ UNCHANGED <<pc, retErr, retApp>>

\* registerBundles, glue.go:677-679: what the loop does with Build's result
BuildReturned(e) ==
    IF e = Nil
    THEN /\ regIdx' = regIdx + 1
         /\ UNCHANGED <<pc, retErr, retApp>>
    ELSE /\ Fail(e)
         /\ UNCHANGED regIdx

\* registerBundles, glue.go:677-679: Build returns nil or an error; a Build
\* that succeeds has added the bundle's definitions to the builder
BuildReturn ==
    /\ pc = "register"
    /\ \E name \in building, e \in {Nil} \cup BuildErrs :
         /\ built' = Append(built, [name |-> name, err |-> e])
         /\ a' = IF e = Nil THEN [a EXCEPT !.builder = Append(@, name)] ELSE a
         /\ BuildReturned(e)
         /\ building' = building \ {name}
    /\ UNCHANGED <<options, optIdx, todo, resolved, unresolved, frames>>
    /\ UNCHANGED execVars

\* registerBundles, glue.go:682, and NewApp, glue.go:516
NewAppReturn ==
    /\ pc = "register"
    /\ building = {}
    /\ regIdx > Len(resolved)
    /\ pc' = "returned"
    /\ retErr' = Nil
    /\ retApp' = TRUE
    /\ UNCHANGED <<options, optIdx, a, todo, resolved, unresolved, frames, regIdx,
                   building, built>>
    /\ UNCHANGED execVars

\* ------------------------------------------------------------------------
\* Execute

\* withCancel, glue.go:725-728: the cancel function of call p is named p
withCancel(c, p) == Append(c, CtxNode("cancel", "", "", p))

\* the done-signal of a context has fired
Done(c) == \E i \in 1..Len(c) : c[i].op = "cancel" /\ c[i].id \in canceled

\* ctx.Value(key): the value of the nearest derivation that carries the key,
\* "" (nil) if none does
RECURSIVE Value(_, _)
Value(c, key) ==
    IF c = <<>> THEN ""
    ELSE IF c[Len(c)].op = "value" /\ c[Len(c)].key = key THEN c[Len(c)].val
    ELSE Value(SubSeq(c, 1, Len(c) - 1), key)

\* calling the cancel function of call p (glue.go:539, 555): the first call
\* closes the done channel, a later one does nothing
CancelFired(p) == IF p \in canceled THEN fired ELSE [fired EXCEPT ![p] = @ + 1]

\* registry.Set, di.go:110: p.values[name] = value
Stored(values, name, value) == [values EXCEPT ![name] = value]

ErrPath == Err("path", "", "")
ErrFill == Err("fill", DefCliRoot, "")
ErrRoot == Err("root", "", "")
ErrClose == Err("close", "", "")

\* a caller calls Execute on the handle NewApp returned
ExecuteCall(p) ==
    /\ pc = "returned"
    /\ retApp
    /\ epc[p] = "idle"
    /\ epc' = [epc EXCEPT ![p] = "lock"]
    /\ UNCHANGED <<newVars, a, mux, err, container, listener, sigChan, canceled,
                   events, registry, nsig, runVars, regVars>>

\* a lock that lets every caller in
CanLockAlways(p) == TRUE

\* sync.Mutex: Lock returns once no caller holds the lock
CanLock(p) == mux = 0

\* Execute, glue.go:521
Lock(p) ==
    /\ epc[p] = "lock"
    /\ CanLock(p)
    /\ mux' = p
    /\ epc' = [epc EXCEPT ![p] = "path"]
    /\ UNCHANGED <<newVars, a, err, container, listener, sigChan, canceled, events,
                   registry, nsig, runVars, regVars>>

\* a path step that stores its result before looking at the error
PathStoredAlways(e) == TRUE

\* Execute, glue.go:526-530: app.path is stored only when filepath.Abs
\* returned no error
PathStored(e) == e = Nil

\* a return on the path error that leaves the lock locked
PathFailedHoldingLock(p) == "done"

\* where Execute goes on when filepath.Abs has failed: it returns, which
\* runs the deferred Unlock (glue.go:526-528, 522)
PathFailed(p) == "unlock"

\* Execute, glue.go:525-530: filepath.Abs fails or yields the path, which is
\* stored in the registry
ResolvePath(p) ==
    /\ epc[p] = "path"
    /\ \E e \in {Nil, ErrPath} :
         /\ err' = [err EXCEPT ![p] = e]
         /\ epc' = [epc EXCEPT ![p] = IF e # Nil THEN PathFailed(p) ELSE "context"]
         /\ registry' = IF PathStored(e) THEN Stored(registry, "app.path", "/bin")
                        ELSE registry
         /\ lastSet' = IF PathStored(e) THEN Stored(lastSet, "app.path", "/bin")
                       ELSE lastSet
    /\ UNCHANGED <<newVars, a, mux, container, listener, sigChan, canceled, events,
                   nsig, runVars, rw, cpc, cop, cret>>

\* Execute, glue.go:532-534
ModifyContext(p) ==
    /\ epc[p] = "context"
    /\ a' = [a EXCEPT !.ctx = withValue(withCancel(@, p), "app.path", "/bin")]
    /\ epc' = [epc EXCEPT ![p] = "build"]
    /\ UNCHANGED <<newVars, mux, err, container, listener, sigChan, canceled, events,
                   registry, nsig, runVars, regVars>>

\* Execute, glue.go:536-547: the container is built and its teardown deferred
BuildContainer(p) ==
    /\ epc[p] = "build"
    /\ container' = [container EXCEPT ![p] = "built"]
    /\ epc' = [epc EXCEPT ![p] = "notify"]
    /\ UNCHANGED <<newVars, a, mux, err, listener, sigChan, canceled, events,
                   registry, nsig, runVars, regVars>>

\* Execute, glue.go:549-557: sigChan is registered and the goroutine started
Notify(p) ==
    /\ epc[p] = "notify"
    /\ listener' = [listener EXCEPT ![p] = "waiting"]
    /\ epc' = [epc EXCEPT ![p] = "fill"]
    /\ UNCHANGED <<newVars, a, mux, err, container, sigChan, canceled, events,
                   registry, nsig, runVars, regVars>>

\* a teardown deferred only after the root command is resolved
FillFailedNoTeardown(p) == "unlock"

\* where Execute goes on when container.Fill has failed: it returns, which
\* runs the deferred teardown (glue.go:561-563, 538)
FillFailed(p) == "teardown"

\* the command line of an Execute call: no runnable command, the version
\* command (glue.go:633), or a command a bundle has tagged (glue.go:598)
SubCommands == IF a.bundles = <<>> THEN {"", "version"} ELSE {"", "version", "cmd"}

\* what container.Fill(DefCliRoot, &root) can return, glue.go:575-619: the
\* built-in definitions cannot fail, the Build of a command that a bundle
\* has tagged can (glue.go:600-602)
FillErrs == IF a.bundles = <<>> THEN {Nil} ELSE {Nil, ErrFill}

\* Execute, glue.go:559-566: the root command is resolved, which builds
\* every tagged command (glue.go:594-605), each obtaining a.ctx from the
\* container (glue.go:628, 647-648); if that succeeds root.Execute() is
\* called and finds the command the arguments name
FillRoot(p) ==
    /\ epc[p] = "fill"
    /\ \E e \in FillErrs :
         /\ err' = [err EXCEPT ![p] = e]
         /\ epc' = [epc EXCEPT ![p] = IF e # Nil THEN FillFailed(p) ELSE "run"]
         /\ IF e # Nil
            THEN UNCHANGED <<cmdCtx, args, root>>
            ELSE /\ cmdCtx' = [cmdCtx EXCEPT ![p] = a.ctx]
                 /\ \E c \in SubCommands :
                      /\ args' = [args EXCEPT ![p] = c]
                      /\ root' = [root EXCEPT ![p] = IF c = "" THEN "finished" ELSE "prerun"]
    /\ UNCHANGED <<newVars, a, mux, container, listener, sigChan, canceled, events,
                   registry, nsig, errBefore, closeErr, fired, stdout, regVars>>

\* the root command's PersistentPreRun, glue.go:585-590
PreRun(p) ==
    /\ epc[p] = "run"
    /\ root[p] = "prerun"
    /\ registry' = Stored(Stored(registry, "cli.cmd", args[p]), "cli.args", "args")
    /\ lastSet' = Stored(Stored(lastSet, "cli.cmd", args[p]), "cli.args", "args")
    /\ a' = [a EXCEPT !.ctx = withValue(withValue(@, "cli.cmd", args[p]), "cli.args", "args")]
    /\ root' = [root EXCEPT ![p] = "body"]
    /\ UNCHANGED <<newVars, mux, epc, err, container, listener, sigChan, canceled,
                   events, nsig, errBefore, closeErr, fired, args, cmdCtx, stdout,
                   rw, cpc, cop, cret>>

\* what the version command prints, glue.go:638-640: the app.version value
\* of the context it was built with, if that is a string
VersionOutput(c) == IF Value(c, "app.version") # "" THEN <<Value(c, "app.version")>> ELSE <<>>

\* the body of the invoked command: the version command's Run
\* (glue.go:637-641), or a bundle's command
RunBody(p) ==
    /\ epc[p] = "run"
    /\ root[p] = "body"
    /\ stdout' = [stdout EXCEPT ![p] = IF args[p] = "version"
                                       THEN @ \o VersionOutput(cmdCtx[p])
                                       ELSE @]
    /\ root' = [root EXCEPT ![p] = "finished"]
    /\ UNCHANGED <<newVars, a, mux, epc, err, container, listener, sigChan, canceled,
                   events, registry, nsig, errBefore, closeErr, fired, args, cmdCtx,
                   regVars>>

\* what root.Execute() can return: Run of the version command returns
\* nothing (glue.go:637); any other invocation may fail
RootErrs(p) == IF args[p] = "version" THEN {Nil} ELSE {Nil, ErrRoot}

\* Execute, glue.go:566-567: root.Execute returns nil or an error
RootReturn(p) ==
    /\ epc[p] = "run"
    /\ root[p] = "finished"
    /\ \E e \in RootErrs(p) : err' = [err EXCEPT ![p] = e]
    /\ root' = [root EXCEPT ![p] = "returned"]
    /\ epc' = [epc EXCEPT ![p] = "teardown"]
    /\ UNCHANGED <<newVars, a, mux, container, listener, sigChan, canceled, events,
                   registry, nsig, errBefore, closeErr, fired, args, cmdCtx, stdout,
                   regVars>>

\* an Unlock deferred after the teardown, which runs before it
ReleasedBeforeTeardown(p) == 0

\* the holder of the lock while the deferred teardown runs: the Unlock of
\* glue.go:522 was deferred first and runs last
HeldThroughTeardown(p) == mux

\* the deferred function, glue.go:539: cancelFunc()
DeferCancel(p) ==
    /\ epc[p] = "teardown"
    /\ mux' = HeldThroughTeardown(p)
    /\ canceled' = canceled \cup {p}
    /\ fired' = CancelFired(p)
    /\ errBefore' = [errBefore EXCEPT ![p] = err[p]]
    /\ events' = [events EXCEPT ![p] = Append(@, "cancel")]
    /\ epc' = [epc EXCEPT ![p] = "delete"]
    /\ UNCHANGED <<newVars, a, err, container, listener, sigChan, registry, nsig,
                   closeErr, root, args, cmdCtx, stdout, regVars>>

\* a teardown that returns the close error whenever there is one
DeleteResultCloseWins(e, c) == IF c # Nil THEN c ELSE e

\* the deferred function, glue.go:541-546: what Execute returns after
\* container.Delete() returned c
DeleteResult(e, c) == IF e # Nil THEN e ELSE c

\* what container.Delete() can return, glue.go:542, 546: the built-in
\* definitions (glue.go:573-657) have no Close function, those of a bundle
\* may have one that fails
CloseErrs == IF a.bundles = <<>> THEN {Nil} ELSE {Nil, ErrClose}

\* the deferred function, glue.go:541-546: container.Delete()
DeferDelete(p) ==
    /\ epc[p] = "delete"
    /\ \E c \in CloseErrs :
         /\ err' = [err EXCEPT ![p] = DeleteResult(@, c)]
         /\ closeErr' = [closeErr EXCEPT ![p] = c]
    /\ container' = [container EXCEPT ![p] = "deleted"]
    /\ events' = [events EXCEPT ![p] = Append(@, "delete")]
    /\ epc' = [epc EXCEPT ![p] = "unlock"]
    /\ UNCHANGED <<newVars, a, mux, listener, sigChan, canceled, registry, nsig,
                   errBefore, fired, root, args, cmdCtx, stdout, regVars>>

\* Execute, glue.go:522: the deferred Unlock, after which Execute has returned
Unlock(p) ==
    /\ epc[p] = "unlock"
    /\ mux' = 0
    /\ epc' = [epc EXCEPT ![p] = "done"]
    /\ UNCHANGED <<newVars, a, err, container, listener, sigChan, canceled, events,
                   registry, nsig, runVars, regVars>>

\* the process receives SIGINT or SIGTERM: every registered sigChan with
\* room in its buffer of one gets it (glue.go:550-551); a signal that no
\* sigChan has room for is dropped and changes nothing
Signal ==
    /\ nsig < MaxSignals
    /\ \E p \in Callers : listener[p] # "none" /\ sigChan[p] = 0
    /\ nsig' = nsig + 1
    /\ sigChan' = [p \in Callers |->
                     IF listener[p] # "none" /\ sigChan[p] = 0 THEN 1 ELSE sigChan[p]]
    /\ UNCHANGED <<newVars, a, mux, epc, err, container, listener, canceled, events,
                   registry, runVars, regVars>>

\* a goroutine that ends the root command when the signal arrives
SignalEffectKill(p) == IF epc[p] = "run" THEN [epc EXCEPT ![p] = "teardown"] ELSE epc

\* what the signal does to the call besides the cancellation, glue.go:553-556:
\* nothing, Execute goes on where it is
SignalEffect(p) == epc

\* a goroutine that takes the signal and calls nothing
ListenerCallsNothing(p) == canceled

\* the goroutine of call p, glue.go:554-555: cancelFunc is this call's own
ListenerCalls(p) == canceled \cup {p}

\* the goroutine of call p, glue.go:552-557: it receives a signal and calls
\* cancelFunc
ListenerCancel(p) ==
    /\ listener[p] = "waiting"
    /\ sigChan[p] > 0
    /\ sigChan' = [sigChan EXCEPT ![p] = @ - 1]
    /\ canceled' = ListenerCalls(p)
    /\ fired' = IF p \in ListenerCalls(p) THEN CancelFired(p) ELSE fired
    /\ listener' = [listener EXCEPT ![p] = "done"]
    /\ epc' = SignalEffect(p)
    /\ UNCHANGED <<newVars, a, mux, err, container, events, registry, nsig,
                   errBefore, closeErr, root, args, cmdCtx, stdout, regVars>>

\* ------------------------------------------------------------------------
\* The registry under concurrent clients (di.go:97-111)

\* a client's call: Get(key) or Set(key, val)
Op(op, key, val) == [op |-> op, key |-> key, val |-> val]
NoOp == Op("", "", "")

\* a client calls Get, di.go:98
GetCall(c) ==
    /\ cpc[c] = "idle"
    /\ \E k \in ClientKeys : cop' = [cop EXCEPT ![c] = Op("Get", k, "")]
    /\ cpc' = [cpc EXCEPT ![c] = "rlock"]
    /\ UNCHANGED <<newVars, a, callVars, registry, runVars, rw, cret, lastSet>>

\* a client calls Set, di.go:106
SetCall(c) ==
    /\ cpc[c] = "idle"
    /\ \E k \in ClientKeys, v \in ClientValues : cop' = [cop EXCEPT ![c] = Op("Set", k, v)]
    /\ cpc' = [cpc EXCEPT ![c] = "lock"]
    /\ UNCHANGED <<newVars, a, callVars, registry, runVars, rw, cret, lastSet>>

\* a read lock that does not wait for the writer
CanRLockAlways(c) == TRUE

\* sync.RWMutex: RLock returns once no writer holds the lock
CanRLock(c) == rw.writer = 0

\* Get, di.go:99
RLock(c) ==
    /\ cpc[c] = "rlock"
    /\ CanRLock(c)
    /\ rw' = [rw EXCEPT !.readers = @ \cup {c}]
    /\ cpc' = [cpc EXCEPT ![c] = "read"]
    /\ UNCHANGED <<newVars, a, callVars, registry, runVars, cop, cret, lastSet>>

\* Get, di.go:102: the result is p.values[name]
GetRead(c) ==
    /\ cpc[c] = "read"
    /\ cret' = [cret EXCEPT ![c] = registry[cop[c].key]]
    /\ cpc' = [cpc EXCEPT ![c] = "runlock"]
    /\ UNCHANGED <<newVars, a, callVars, registry, runVars, rw, cop, lastSet>>

\* Get, di.go:100: the deferred RUnlock, after which Get has returned
RUnlock(c) ==
    /\ cpc[c] = "runlock"
    /\ rw' = [rw EXCEPT !.readers = @ \ {c}]
    /\ cpc' = [cpc EXCEPT ![c] = "idle"]
    /\ cop' = [cop EXCEPT ![c] = NoOp]
    /\ cret' = [cret EXCEPT ![c] = ""]
    /\ UNCHANGED <<newVars, a, callVars, registry, runVars, lastSet>>

\* sync.RWMutex: Lock returns once no writer and no reader holds the lock
CanWLock(c) == rw.writer = 0 /\ rw.readers = {}

\* Set, di.go:107
WLock(c) ==
    /\ cpc[c] = "lock"
    /\ CanWLock(c)
    /\ rw' = [rw EXCEPT !.writer = c]
    /\ cpc' = [cpc EXCEPT ![c] = "write"]
    /\ UNCHANGED <<newVars, a, callVars, registry, runVars, cop, cret, lastSet>>

\* Set, di.go:110
SetWrite(c) ==
    /\ cpc[c] = "write"
    /\ registry' = Stored(registry, cop[c].key, cop[c].val)
    /\ cpc' = [cpc EXCEPT ![c] = "unlock"]
    /\ UNCHANGED <<newVars, a, callVars, runVars, rw, cop, cret, lastSet>>

\* Set, di.go:108: the deferred Unlock, after which Set has returned
WUnlock(c) ==
    /\ cpc[c] = "unlock"
    /\ rw' = [rw EXCEPT !.writer = 0]
    /\ lastSet' = Stored(lastSet, cop[c].key, cop[c].val)
    /\ cpc' = [cpc EXCEPT ![c] = "idle"]
    /\ cop' = [cop EXCEPT ![c] = NoOp]
    /\ UNCHANGED <<newVars, a, callVars, registry, runVars, cret>>

\* ------------------------------------------------------------------------
\* Specifications

\* NewApp, glue.go:488-492, called with one of the given option lists
InitWith(inputs) ==
    /\ options \in inputs
    /\ pc = "options"
    /\ optIdx = 1
    /\ a = [ctx |-> Background, scopes |-> <<>>, bundles |-> <<>>, builder |-> <<>>]
    /\ todo = {}
    /\ resolved = <<>>
    /\ unresolved = <<>>
    /\ frames = <<>>
    /\ regIdx = 1
    /\ building = {}
    /\ built = <<>>
    /\ retErr = Nil
    /\ retApp = FALSE
    /\ mux = 0
    /\ epc = [p \in Callers |-> "idle"]
    /\ err = [p \in Callers |-> Nil]
    /\ container = [p \in Callers |-> "none"]
    /\ listener = [p \in Callers |-> "none"]
    /\ sigChan = [p \in Callers |-> 0]
    /\ canceled = {}
    /\ events = [p \in Callers |-> <<>>]
    /\ registry = [k \in RegistryKeys |-> ""]
    /\ nsig = 0
    /\ errBefore = [p \in Callers |-> Nil]
    /\ closeErr = [p \in Callers |-> Nil]
    /\ fired = [p \in Callers |-> 0]
    /\ root = [p \in Callers |-> "none"]
    /\ args = [p \in Callers |-> ""]
    /\ cmdCtx = [p \in Callers |-> NilCtx]
    /\ stdout = [p \in Callers |-> <<>>]
    /\ rw = [writer |-> 0, readers |-> {}]
    /\ cpc = [c \in Clients |-> "idle"]
    /\ cop = [c \in Clients |-> NoOp]
    /\ cret = [c \in Clients |-> ""]
    /\ lastSet = [k \in RegistryKeys |-> ""]

Init == InitWith(Inputs)

InitExec == InitWith(ExecInputs)

InitRun == InitWith(RunInputs)

\* the registry of an application, newRegistry (di.go:91-95)
InitRegistry == InitWith({<<>>})

Next ==
    \/ ApplyOption
    \/ NewBuilder
    \/ InitBuilder
    \/ RangeBundles
    \/ DepStep
    \/ Return
    \/ RangeDone
    \/ BuildCall
    \/ BuildReturn
    \/ NewAppReturn

\* NewApp without bundles: the loops of registerBundles (glue.go:666, 677)
\* have nothing to visit
NextPlain ==
    \/ ApplyOption
    \/ NewBuilder
    \/ InitBuilder
    \/ RangeDone
    \/ NewAppReturn

NextExec ==
    \/ NextPlain
    \/ \E p \in Callers :
         \/ ExecuteCall(p)
         \/ Lock(p)
         \/ ResolvePath(p)
         \/ ModifyContext(p)
         \/ BuildContainer(p)
         \/ Notify(p)
         \/ FillRoot(p)
         \/ PreRun(p)
         \/ RunBody(p)
         \/ RootReturn(p)
         \/ DeferCancel(p)
         \/ DeferDelete(p)
         \/ Unlock(p)
         \/ ListenerCancel(p)
    \/ Signal

NextRun ==
    \/ Next
    \/ \E p \in Callers :
         \/ ExecuteCall(p)
         \/ Lock(p)
         \/ ResolvePath(p)
         \/ ModifyContext(p)
         \/ BuildContainer(p)
         \/ Notify(p)
         \/ FillRoot(p)
         \/ PreRun(p)
         \/ RunBody(p)
         \/ RootReturn(p)
         \/ DeferCancel(p)
         \/ DeferDelete(p)
         \/ Unlock(p)

NextRegistry ==
    \E c \in Clients :
      \/ GetCall(c)
      \/ SetCall(c)
      \/ RLock(c)
      \/ GetRead(c)
      \/ RUnlock(c)
      \/ WLock(c)
      \/ SetWrite(c)
      \/ WUnlock(c)

\* NewApp on every input of the bounds
Spec == Init /\ [][Next]_vars

\* the steps of registerBundles' range loop and of resolveDependencies
Resolve == RangeBundles \/ DepStep \/ Return \/ RangeDone

\* NewApp without bundles, then Execute calls on the application it returned
\* and signals
SpecExec == InitExec /\ [][NextExec]_vars

\* NewApp with and without a version or bundles, then Execute calls that run
\* a command while no signal arrives
SpecRun == InitRun /\ [][NextRun]_vars

\* the statements of Execute itself, the root command's run left out
ExecuteStep(p) ==
    \/ ResolvePath(p)
    \/ ModifyContext(p)
    \/ BuildContainer(p)
    \/ Notify(p)
    \/ FillRoot(p)
    \/ DeferCancel(p)
    \/ DeferDelete(p)
    \/ Unlock(p)

\* SpecRun with the scheduling of Go: the goroutine of an Execute call goes
\* on with Execute's own statements as long as it has one to run, and a call
\* waiting in a.mux.Lock() gets the lock if it is free again and again
\* (sync.Mutex does not starve a waiter); nothing makes a command return
SpecRunFair ==
    /\ SpecRun
    /\ \A p \in Callers : WF_vars(ExecuteStep(p)) /\ SF_vars(Lock(p))

\* clients calling Get and Set on one registry
SpecRegistry == InitRegistry /\ [][NextRegistry]_vars

\* ------------------------------------------------------------------------
\* The bundle set of the application and the phases of NewApp

BundleNames == DOMAIN a.bundles

\* the names bundle n declares as its dependencies
Declared(n) == {a.bundles[n].dependsOn[i] : i \in 1..Len(a.bundles[n].dependsOn)}

DependsOnItself(n) == n \in Declared(n)
HasSelfDependency == \E n \in BundleNames : DependsOnItself(n)

HasAbsentDependency == \E n \in BundleNames : Declared(n) \ BundleNames # {}

\* m is reached from n along at most k declared dependencies
RECURSIVE ReachesIn(_, _, _)
ReachesIn(n, m, k) ==
    \/ m \in Declared(n)
    \/ k > 1 /\ \E x \in Declared(n) \cap BundleNames : ReachesIn(x, m, k - 1)

Reaches(n, m) == ReachesIn(n, m, Cardinality(BundleNames))

\* n is one of two or more bundles that depend on each other
OnCycle(n) == \E m \in BundleNames \ {n} : Reaches(n, m) /\ Reaches(m, n)
HasCycle == \E n \in BundleNames : OnCycle(n)

WellFormed == ~HasSelfDependency /\ ~HasAbsentDependency /\ ~HasCycle

CircularKind == ErrCircular("").kind
SelfKind == ErrSelf("").kind
UnresolvedKind == ErrUnresolved("", "").kind
DuplicateKind == ErrDuplicate("").kind
ResolveErrorKinds == {CircularKind, SelfKind, UnresolvedKind}

\* every option has been applied without an error
OptionsApplied == optIdx > Len(options)

\* NewApp has got as far as registerBundles
ResolutionReached ==
    OptionsApplied /\ ScopesOk(a.scopes) /\ pc \in {"resolve", "register", "returned"}

Count(s, x) == Cardinality({i \in 1..Len(s) : s[i] = x})
IndexOf(s, x) == CHOOSE i \in 1..Len(s) : s[i] = x

Builtins == <<DefCliRoot, DefCliVersion, DefContext, DefRegistry>>

\* ------------------------------------------------------------------------
\* C1

\* the range loop of registerBundles has ended without an error
ResolutionDone ==
    \/ pc = "register"
    \/ pc = "returned" /\ ResolutionReached /\ retErr.kind \notin ResolveErrorKinds

\* C1: for a bundle set without a cycle, a self-dependency or a dependency on
\* an absent name, resolution does not fail (it fails only for a set with
\* such a defect), and once it is over resolved holds every bundle name
\* exactly once, each declared dependency before the bundle that declares it.
C1_ResolvedOrder ==
    /\ retErr.kind \in ResolveErrorKinds => ~WellFormed
    /\ ResolutionDone =>
         /\ \A i \in 1..Len(resolved) : resolved[i] \in BundleNames
         /\ \A n \in BundleNames : Count(resolved, n) = 1
         /\ \A n \in BundleNames : \A d \in Declared(n) :
              /\ d \in BundleNames
              /\ IndexOf(resolved, d) < IndexOf(resolved, n)

\* a diamond, one of its bundles naming its dependency twice, is resolved
C1_DiamondResolved ==
    /\ pc = "register"
    /\ BundleNames = {"a", "b", "c", "d"}
    /\ a.bundles["b"].dependsOn = <<"a", "a">>
    /\ a.bundles["d"].dependsOn = <<"b", "c">>
    /\ Len(resolved) = 4

\* ------------------------------------------------------------------------
\* C2

\* C2 (as amended): a bundle set in which two or more bundles depend on each
\* other is never resolved: NewApp returns no application and runs no Build,
\* and returns one of the resolver's errors; that error is the circular
\* dependency error, naming a bundle of a cycle, when the set has neither a
\* self-dependency nor a dependency on an absent name.
C2_CycleNeverResolved ==
    /\ retApp => ~HasCycle
    /\ (pc = "returned" /\ ResolutionReached /\ HasCycle) =>
         /\ ~retApp
         /\ built = <<>>
         /\ retErr.kind \in ResolveErrorKinds
         /\ (~HasSelfDependency /\ ~HasAbsentDependency) =>
              (retErr.kind = CircularKind /\ OnCycle(retErr.name))

\* C2 as stated: with a cycle in the set, NewApp fails with the circular
\* dependency error.
C2_AlwaysCircularError ==
    (pc = "returned" /\ ResolutionReached /\ HasCycle) =>
        (~retApp /\ retErr.kind = CircularKind)

\* the set a, b(c), c(a, b) has failed with the circular dependency error
C2_CycleReported ==
    /\ pc = "returned"
    /\ BundleNames = {"a", "b", "c"}
    /\ a.bundles["b"].dependsOn = <<"c">>
    /\ a.bundles["c"].dependsOn = <<"a", "b">>
    /\ retErr.kind = CircularKind
    /\ ~retApp

\* ------------------------------------------------------------------------
\* C3

\* C3 (as amended): a bundle set in which a bundle names itself as a
\* dependency is never resolved: NewApp returns no application and runs no
\* Build, and returns one of the resolver's errors; that error is the
\* self-dependency error, naming such a bundle, when the set has neither a
\* dependency on an absent name nor a cycle of two or more bundles.
C3_SelfDependencyNeverResolved ==
    /\ retApp => ~HasSelfDependency
    /\ (pc = "returned" /\ ResolutionReached /\ HasSelfDependency) =>
         /\ ~retApp
         /\ built = <<>>
         /\ retErr.kind \in ResolveErrorKinds
         /\ (~HasAbsentDependency /\ ~HasCycle) =>
              (retErr.kind = SelfKind /\ DependsOnItself(retErr.name))

\* C3 as stated: with a self-dependency in the set, NewApp fails with the
\* self-dependency error, whatever the other dependencies and bundles are.
C3_AlwaysSelfError ==
    (pc = "returned" /\ ResolutionReached /\ HasSelfDependency) =>
        (~retApp /\ retErr.kind = SelfKind)

\* the set a, b, c(a, c), the own name second in the list, has failed with
\* the self-dependency error
C3_SelfReported ==
    /\ pc = "returned"
    /\ BundleNames = {"a", "b", "c"}
    /\ a.bundles["c"].dependsOn = <<"a", "c">>
    /\ retErr = ErrSelf("c")
    /\ ~retApp

\* ------------------------------------------------------------------------
\* C4

\* C4 (as amended): a bundle set in which a bundle declares a dependency on
\* a name absent from the set is never resolved: NewApp returns no
\* application and runs no Build, and returns one of the resolver's errors;
\* that error is the unresolved-dependency error, naming a bundle and an
\* absent name it declares, when the set has neither a self-dependency nor a
\* cycle of two or more bundles.
C4_AbsentDependencyNeverResolved ==
    /\ retApp => ~HasAbsentDependency
    /\ (pc = "returned" /\ ResolutionReached /\ HasAbsentDependency) =>
         /\ ~retApp
         /\ built = <<>>
         /\ retErr.kind \in ResolveErrorKinds
         /\ (~HasSelfDependency /\ ~HasCycle) =>
              /\ retErr.kind = UnresolvedKind
              /\ retErr.name \in BundleNames
              /\ retErr.dep \in Declared(retErr.name) \ BundleNames

\* C4 as stated: with a dependency on an absent name in the set, NewApp
\* fails with the unresolved-dependency error naming a bundle and an absent
\* name it declares.
C4_AlwaysUnresolvedError ==
    (pc = "returned" /\ ResolutionReached /\ HasAbsentDependency) =>
        /\ ~retApp
        /\ retErr.kind = UnresolvedKind
        /\ retErr.name \in BundleNames
        /\ retErr.dep \in Declared(retErr.name) \ BundleNames

\* the set a, b, c(a, d) has failed with the unresolved-dependency error
\* naming c and d
C4_AbsentReported ==
    /\ pc = "returned"
    /\ BundleNames = {"a", "b", "c"}
    /\ a.bundles["c"].dependsOn = <<"a", "d">>
    /\ retErr = ErrUnresolved("c", "d")
    /\ ~retApp

\* ------------------------------------------------------------------------
\* C5

\* the bundles the options supply, in order, each with the index of its option
RECURSIVE SuppliedUpTo(_)
SuppliedUpTo(k) ==
    IF k = 0 THEN <<>>
    ELSE SuppliedUpTo(k - 1) \o
         [i \in 1..Len(options[k].bundles) |->
            [bundle |-> options[k].bundles[i], opt |-> k]]

Supplied == SuppliedUpTo(Len(options))

\* the j-th supplied bundle has the name of an earlier one
DuplicateAt(j) == \E i \in 1..(j - 1) : Supplied[i].bundle.name = Supplied[j].bundle.name
HasDuplicate == \E j \in 1..Len(Supplied) : DuplicateAt(j)
FirstDuplicate == CHOOSE j \in 1..Len(Supplied) :
                     DuplicateAt(j) /\ \A k \in 1..(j - 1) : ~DuplicateAt(k)
FirstNamed(name) ==
    Supplied[CHOOSE i \in 1..Len(Supplied) :
               /\ Supplied[i].bundle.name = name
               /\ \A k \in 1..(i - 1) : Supplied[k].bundle.name # name].bundle

\* an option before the k-th is a Context option with a nil context
NilContextBefore(k) ==
    \E i \in 1..(k - 1) : options[i].kind = "Context" /\ options[i].ctx = NilCtx

\* C5 (as amended): if two bundles with the same name are supplied, in one
\* Bundles option or in several, no Build is ever called and NewApp returns
\* no application; it returns the duplicate-name error, the bundle first
\* registered under the name still in the map, unless an option before the
\* one with the second bundle is a Context option with a nil context, whose
\* error NewApp returns instead.
C5_DuplicateFailsBeforeBuild ==
    /\ (built # <<>> \/ building # {} \/ retApp) => ~HasDuplicate
    /\ (pc = "returned" /\ HasDuplicate) =>
         LET dup == Supplied[FirstDuplicate] IN
           IF NilContextBefore(dup.opt)
           THEN retErr = ErrNilContext
           ELSE /\ retErr = ErrDuplicate(dup.bundle.name)
                /\ a.bundles[dup.bundle.name] = FirstNamed(dup.bundle.name)

\* C5 as stated: if two bundles with the same name are supplied, NewApp
\* fails with the duplicate-name error.
C5_AlwaysDuplicateError ==
    (pc = "returned" /\ HasDuplicate) =>
        (~retApp /\ retErr.kind = DuplicateKind /\ built = <<>>)

\* two Bundles options have supplied two bundles named a, and NewApp has
\* failed with the first of them in the map
C5_DuplicateReported ==
    /\ pc = "returned"
    /\ Len(options) = 2
    /\ options[1].kind = "Bundles"
    /\ options[2].kind = "Bundles"
    /\ retErr = ErrDuplicate("a")
    /\ a.bundles["a"].ref = 1
    /\ options[2].bundles[1].ref = 2

\* ------------------------------------------------------------------------
\* C6

\* C6: a Build that returned an error is the last Build called, NewApp has
\* returned that very error and no application, and the definitions of the
\* bundles built before it are still in the builder.
C6_BuildErrorReturned ==
    /\ \A i \in 1..Len(built) :
         built[i].err # Nil =>
            /\ i = Len(built)
            /\ building = {}
            /\ pc = "returned"
            /\ retErr = built[i].err
            /\ ~retApp
    /\ \A i \in 1..Len(built) : built[i].err = Nil => InSeq(built[i].name, a.builder)

\* the second Build has failed, and a third bundle was never built
C6_SecondBuildFailed ==
    /\ pc = "returned"
    /\ Len(built) = 2
    /\ built[1].err = Nil
    /\ built[2].err \in BuildErrs
    /\ Len(resolved) = 3

\* ------------------------------------------------------------------------
\* C7

\* C7: a Build is called only when the range loop has resolved every bundle
\* of the set; with a self-dependency, a dependency on an absent name or a
\* cycle anywhere in the set, no Build is called at all.
C7_ResolvedBeforeBuild ==
    /\ (building # {} \/ built # <<>>) =>
         /\ todo = {}
         /\ frames = <<>>
         /\ unresolved = <<>>
         /\ \A n \in BundleNames : InSeq(n, resolved)
    /\ (building # {} \/ built # <<>>) => WellFormed

\* resolution has failed after it had resolved a bundle, and no Build was called
C7_FailedAfterResolving ==
    /\ pc = "returned"
    /\ retErr.kind \in ResolveErrorKinds
    /\ resolved # <<>>
    /\ built = <<>>

\* ------------------------------------------------------------------------
\* C8

\* C8: the built-in definitions are in the builder before any Build is
\* called; the Builds are called one at a time, in the order of resolved,
\* each after the Builds of its bundle's dependencies have returned nil; and
\* when NewApp returns an application every bundle was built exactly once.
C8_SequentialBuild ==
    /\ Cardinality(building) <= 1
    /\ (building # {} \/ built # <<>>) =>
         (Len(a.builder) >= Len(Builtins) /\ SubSeq(a.builder, 1, Len(Builtins)) = Builtins)
    /\ Len(built) <= Len(resolved)
    /\ \A i \in 1..Len(built) : i <= Len(resolved) => built[i].name = resolved[i]
    /\ \A n \in building :
         /\ Len(built) < Len(resolved)
         /\ n = resolved[Len(built) + 1]
         /\ \A d \in Declared(n) :
              \E i \in 1..Len(built) : built[i].name = d /\ built[i].err = Nil
    /\ retApp =>
         /\ Len(built) = Len(resolved)
         /\ \A n \in BundleNames : Cardinality({i \in 1..Len(built) : built[i].name = n}) = 1
         /\ \A i \in 1..Len(built) : built[i].err = Nil
         /\ a.builder = Builtins \o resolved

\* NewApp has returned an application of three bundles, one depending on the
\* two others
C8_ThreeBuilt ==
    /\ retApp
    /\ Len(built) = 3
    /\ \E n \in BundleNames : Cardinality(Declared(n)) = 2

\* ------------------------------------------------------------------------
\* C9

\* the caller holds the lock: it is between Lock and Unlock
InExecute(p) ==
    epc[p] \in {"path", "context", "build", "notify", "fill", "run", "teardown",
                "delete", "unlock"}

\* C9: at most one Execute call is between Lock and Unlock; a call that
\* waits for the lock has returned nothing and has neither resolved the
\* path, derived a context nor built a container; and while one call holds
\* the lock every container of another call has been deleted.
C9_SingleFlight ==
    /\ \A p, q \in Callers : (InExecute(p) /\ InExecute(q)) => p = q
    /\ \A p \in Callers : InExecute(p) => mux = p
    /\ \A p \in Callers :
         epc[p] = "lock" =>
            /\ err[p] = Nil
            /\ container[p] = "none"
            /\ listener[p] = "none"
            /\ events[p] = <<>>
            /\ \A i \in 1..Len(a.ctx) : a.ctx[i].id # p
    /\ \A p, q \in Callers :
         (p # q /\ InExecute(q) /\ container[p] # "none") =>
            (container[p] = "deleted" /\ p \in canceled)

\* a second call waits for the lock while the root command of the first runs
C9_SecondCallBlocked ==
    \E p, q \in Callers : epc[p] = "lock" /\ epc[q] = "run"

\* ------------------------------------------------------------------------
\* C10

\* C10: the teardown of a call that built its container calls the cancel
\* function and then container.Delete, once each and in this order, before
\* Execute returns, whether the root command was not resolved, succeeded or
\* failed.
C10_CancelThenDelete ==
    \A p \in Callers :
        /\ events[p] \in {<<>>, <<"cancel">>, <<"cancel", "delete">>}
        /\ events[p] # <<>> => (p \in canceled /\ container[p] # "none")
        /\ container[p] = "deleted" <=> events[p] = <<"cancel", "delete">>
        /\ (epc[p] \in {"unlock", "done"} /\ container[p] # "none") =>
              container[p] = "deleted"

\* a call whose root command was not resolved has returned with its context
\* canceled and its container deleted
C10_TornDownAfterFillError ==
    \E p \in Callers :
        /\ epc[p] = "done"
        /\ err[p] = ErrFill
        /\ events[p] = <<"cancel", "delete">>

\* ------------------------------------------------------------------------
\* C11

\* the deferred teardown of call p has run to its end
TornDown(p) == epc[p] \in {"unlock", "done"} /\ container[p] = "deleted"

\* C11: Execute returns the first failure: the error of the root command's
\* resolution or invocation if there is one, whatever container.Delete
\* returned; otherwise the error of container.Delete; nil only if neither
\* failed.
C11_FirstFailureWins ==
    \A p \in Callers :
        TornDown(p) =>
            /\ errBefore[p] \in {Nil, ErrFill, ErrRoot}
            /\ errBefore[p] # Nil => err[p] = errBefore[p]
            /\ errBefore[p] = Nil => err[p] = closeErr[p]
            /\ err[p] = Nil <=> (errBefore[p] = Nil /\ closeErr[p] = Nil)

\* a call has returned the root command's error although the close failed too
C11_CloseErrorSwallowed ==
    \E p \in Callers :
        /\ epc[p] = "done"
        /\ errBefore[p] = ErrRoot
        /\ closeErr[p] = ErrClose
        /\ err[p] = ErrRoot

\* ------------------------------------------------------------------------
\* C12

\* C12: the goroutine that received a signal has called the cancel function
\* of its own call; the done channel of a call is closed once however many
\* signals arrive and although the teardown calls the cancel function again;
\* no signal makes Execute return an error of its own.
C12_SignalCancelsOnce ==
    \A p \in Callers :
        /\ listener[p] = "done" => p \in canceled
        /\ fired[p] = IF p \in canceled THEN 1 ELSE 0
        /\ events[p] # <<>> => fired[p] = 1
        /\ err[p] \in {Nil, ErrPath, ErrFill, ErrRoot, ErrClose}

\* a call's goroutine has canceled the context while the root command runs,
\* a second signal lies in sigChan, and the done channel was closed once
C12_SecondSignalIgnored ==
    \E p \in Callers :
        /\ epc[p] = "run"
        /\ listener[p] = "done"
        /\ sigChan[p] = 1
        /\ nsig = 2
        /\ fired[p] = 1

\* ------------------------------------------------------------------------
\* C13

\* C13: while the root command runs, canceled or not, Execute stays in
\* root.Execute() with the lock held and the container open; the teardown
\* runs, and Execute returns, only once the root command has returned.
C13_RootReturnsFirst ==
    \A p \in Callers :
        /\ root[p] \in {"prerun", "body", "finished"} =>
              /\ epc[p] = "run"
              /\ mux = p
              /\ container[p] = "built"
              /\ events[p] = <<>>
        /\ (epc[p] \in {"teardown", "delete", "unlock", "done"} /\ root[p] # "none") =>
              root[p] = "returned"
        /\ container[p] = "deleted" => (root[p] = "returned" \/ errBefore[p] = ErrFill)

\* the context of a call is canceled and the body of its command still runs
C13_RunningWhileCanceled ==
    \E p \in Callers :
        /\ root[p] = "body"
        /\ p \in canceled
        /\ listener[p] = "done"
        /\ container[p] = "built"

\* ------------------------------------------------------------------------
\* C14

\* C14: a call of Execute starts with a context whose done-signal has not
\* fired, whatever earlier calls on the application have done (the base
\* context of the inputs is never canceled).
C14_FreshContext ==
    \A p \in Callers : epc[p] = "build" => ~Done(a.ctx)

\* ------------------------------------------------------------------------
\* C15

\* the k-th option returns an error: a Context option with a nil context, or
\* a Bundles option with a bundle whose name was supplied before
OptionFails(k) ==
    \/ options[k].kind = "Context" /\ options[k].ctx = NilCtx
    \/ /\ options[k].kind = "Bundles"
       /\ \E j \in 1..Len(SuppliedUpTo(k)) :
            /\ SuppliedUpTo(k)[j].opt = k
            /\ \E i \in 1..(j - 1) :
                 SuppliedUpTo(k)[i].bundle.name = SuppliedUpTo(k)[j].bundle.name

\* the index of the first option that returns an error, 0 if none does
FirstFailing ==
    IF \E k \in 1..Len(options) : OptionFails(k)
    THEN CHOOSE k \in 1..Len(options) :
           OptionFails(k) /\ \A i \in 1..(k - 1) : ~OptionFails(i)
    ELSE 0

\* the scopes after the first k options
RECURSIVE ExpectedScopes(_)
ExpectedScopes(k) ==
    IF k = 0 THEN <<>>
    ELSE IF options[k].kind = "Scopes" THEN options[k].scopes
    ELSE ExpectedScopes(k - 1)

\* C15: NewApp applies the options in order and stops at the first that
\* fails, returning its error and no application, with no later option
\* applied, no builder and no Build call; with every option applied it
\* fails with the builder's error if the scopes are rejected, again before
\* any Build; it returns an application only if the options, the builder,
\* the built-in definitions and every bundle's Build succeeded.
C15_FirstFailureStopsNewApp ==
    /\ pc = "options" => (FirstFailing = 0 \/ optIdx <= FirstFailing)
    /\ (pc = "returned" /\ ~retApp) => retErr # Nil
    /\ (pc = "returned" /\ ~OptionsApplied) =>
          /\ optIdx = FirstFailing
          /\ ~retApp
          /\ retErr = (IF options[optIdx].kind = "Context" THEN ErrNilContext
                       ELSE ErrDuplicate(retErr.name))
          /\ a.scopes = ExpectedScopes(optIdx - 1)
          /\ a.builder = <<>>
          /\ built = <<>> /\ building = {}
    /\ (pc = "returned" /\ OptionsApplied /\ ~ScopesOk(a.scopes)) =>
          /\ ~retApp
          /\ retErr = ErrScopes
          /\ a.builder = <<>>
          /\ built = <<>> /\ building = {}
    /\ retApp =>
          /\ pc = "returned"
          /\ retErr = Nil
          /\ OptionsApplied
          /\ FirstFailing = 0
          /\ a.scopes = ExpectedScopes(Len(options))
          /\ ScopesOk(a.scopes)
          /\ SubSeq(a.builder, 1, Len(Builtins)) = Builtins
          /\ Len(built) = Cardinality(DOMAIN a.bundles)
          /\ \A i \in 1..Len(built) : built[i].err = Nil

\* NewApp has failed at the first of two options, a Context option with a
\* nil context, and the Scopes option after it was not applied
C15_StoppedAtFirstOption ==
    /\ pc = "returned"
    /\ ~retApp
    /\ retErr = ErrNilContext
    /\ optIdx = 1
    /\ Len(options) = 2
    /\ options[2].kind = "Scopes"
    /\ a.scopes = <<>>
    /\ built = <<>>

\* ------------------------------------------------------------------------
\* C16

\* the context after the first k options, none of which failed
RECURSIVE ExpectedCtx(_)
ExpectedCtx(k) ==
    IF k = 0 THEN Background
    ELSE IF options[k].kind = "Context" THEN options[k].ctx
    ELSE IF options[k].kind = "Version"
         THEN ExpectedCtx(k - 1) \o <<CtxNode("value", "app.version", options[k].version, 0)>>
    ELSE ExpectedCtx(k - 1)

\* C16: a Context option with a nil context makes NewApp return
\* ErrNilContext and no application and leaves a.ctx as the options before
\* it made it; a Context option with a context makes that context a.ctx, in
\* place of context.Background().
C16_NilContextRejected ==
    /\ a.ctx # NilCtx
    /\ (pc = "returned" /\ ~OptionsApplied /\ options[optIdx].kind = "Context") =>
          /\ options[optIdx].ctx = NilCtx
          /\ retErr = ErrNilContext
          /\ ~retApp
    /\ pc \in {"options", "initBuilder", "returned"} => a.ctx = ExpectedCtx(optIdx - 1)
    /\ \A k \in 1..(optIdx - 1) :
          (options[k].kind = "Context" /\ \A j \in (k + 1)..(optIdx - 1) : options[j].kind # "Context")
             => (options[k].ctx # NilCtx /\ a.ctx[1] = options[k].ctx[1])

\* NewApp has failed at a Context option with a nil context, and a.ctx is
\* the context of the Context option before it
C16_NilAfterCallerContext ==
    /\ pc = "returned"
    /\ retErr = ErrNilContext
    /\ optIdx = 2
    /\ options[1] = OptContext(CallerCtx)
    /\ options[2] = OptContext(NilCtx)
    /\ a.ctx = CallerCtx

\* ------------------------------------------------------------------------
\* C17

\* the cancel function of call p was derived: its node is on a.ctx
Derived(p) == \E i \in 1..Len(a.ctx) : a.ctx[i].op = "cancel" /\ a.ctx[i].id = p

\* C17: a call whose path resolution failed returns that error: it has
\* derived no context, built no container, started no goroutine and run no
\* teardown, and it has released the lock when it has returned; as long as
\* no call got past the path resolution, app.path is neither in the registry
\* nor in the context.
C17_PathErrorReturnsEarly ==
    /\ \A p \in Callers :
          err[p] = ErrPath =>
             /\ epc[p] \in {"unlock", "done"}
             /\ epc[p] = "unlock" => mux = p
             /\ ~Derived(p)
             /\ container[p] = "none"
             /\ listener[p] = "none"
             /\ root[p] = "none"
             /\ events[p] = <<>>
             /\ p \notin canceled
    /\ \A p \in Callers : epc[p] = "done" => mux # p
    /\ (\A q \in Callers : epc[q] \in {"idle", "lock", "path"} \/ err[q] = ErrPath) =>
          /\ registry["app.path"] = ""
          /\ Value(a.ctx, "app.path") = ""

\* a call has returned the path error, the lock is free and app.path was
\* never stored
C17_ReturnedPathError ==
    \E p \in Callers :
        /\ epc[p] = "done"
        /\ err[p] = ErrPath
        /\ mux = 0
        /\ registry["app.path"] = ""

\* ------------------------------------------------------------------------
\* C18

\* what the Version options of the input configure: the version to print
ConfiguredVersion ==
    LET vs == {i \in 1..Len(options) : options[i].kind = "Version"} IN
      IF vs = {} THEN <<>>
      ELSE <<options[CHOOSE i \in vs : \A j \in vs : j <= i].version>>

\* C18: the version command of an application built with Version(v) prints
\* v, that of an application built without a Version option prints nothing,
\* and in both cases root.Execute() returns nil, so that Execute returns
\* what closing the container returns.
C18_VersionPrinted ==
    \A p \in Callers :
        (args[p] = "version" /\ root[p] \in {"finished", "returned"}) =>
            /\ stdout[p] = ConfiguredVersion
            /\ epc[p] = "teardown" => err[p] = Nil
            /\ epc[p] = "done" => err[p] = closeErr[p]

\* ------------------------------------------------------------------------
\* C19

\* C19: a Get is about to return the value that the last returned Set of its
\* key stored, "" (nil) if there was none; under every key that no Set in
\* progress writes, the registry holds the value of the last returned Set of
\* that key; only values some Set was called with are stored; a writer
\* excludes every reader.
C19_RegistryLinearizable ==
    /\ \A c \in Clients :
          cpc[c] = "runlock" =>
             /\ cret[c] = lastSet[cop[c].key]
             /\ cret[c] = registry[cop[c].key]
    /\ \A k \in RegistryKeys :
          (rw.writer = 0 \/ cop[rw.writer].key # k) => registry[k] = lastSet[k]
    /\ \A k \in RegistryKeys : registry[k] \in {""} \cup ClientValues
    /\ rw.writer # 0 => rw.readers = {}
    /\ \A c \in Clients : c \in rw.readers <=> cpc[c] \in {"read", "runlock"}

\* a Get is about to return "y", the value of the last returned Set of its
\* key, while a Set of "x" under the same key waits for the lock
C19_GetWhileSetWaits ==
    \E c, d \in Clients :
        /\ cpc[c] = "runlock"
        /\ cret[c] = "y"
        /\ lastSet[cop[c].key] = "y"
        /\ cpc[d] = "lock"
        /\ cop[d] = Op("Set", cop[c].key, "x")

\* ------------------------------------------------------------------------
\* C20

\* C20: when the body of a command runs, the command and the arguments are
\* in the registry under cli.cmd and cli.args, and the context the command
\* got from the container when it was built holds them under the same keys.
C20_PreRunVisible ==
    \A p \in Callers :
        root[p] = "body" =>
            /\ registry["cli.cmd"] = args[p]
            /\ registry["cli.args"] = "args"
            /\ Value(cmdCtx[p], "cli.cmd") = args[p]
            /\ Value(cmdCtx[p], "cli.args") = "args"

\* ------------------------------------------------------------------------
\* C21

\* every bundle is in s after the bundles it declares as dependencies
DependenciesFirst(s) ==
    \A i \in 1..Len(s) :
        \A d \in Declared(s[i]) : \E j \in 1..(i - 1) : s[j] = d

\* C21: whatever order the range loop of registerBundles visits the bundles
\* in, the resolution succeeds exactly if the bundle set has no cycle, no
\* self-dependency and no dependency on an absent bundle, which the order
\* has no part in; when it succeeds every bundle is resolved, after its
\* dependencies.
C21_OutcomeIndependentOfOrder ==
    /\ pc = "register" =>
          /\ WellFormed
          /\ {resolved[i] : i \in 1..Len(resolved)} = BundleNames
          /\ DependenciesFirst(resolved)
    /\ (pc = "returned" /\ ResolutionReached) =>
          IF WellFormed
          THEN /\ retErr.kind \notin ResolveErrorKinds
               /\ {resolved[i] : i \in 1..Len(resolved)} = BundleNames
               /\ DependenciesFirst(resolved)
          ELSE /\ retErr.kind \in ResolveErrorKinds
               /\ ~retApp

\* the range loop has visited bundle b before bundle a, neither of which
\* depends on the other, and the resolution has succeeded
C21_VisitedInOtherOrder ==
    /\ pc = "register"
    /\ BundleNames = {"a", "b"}
    /\ Declared("a") = {} /\ Declared("b") = {}
    /\ resolved = <<"b", "a">>

\* ------------------------------------------------------------------------
\* C22

\* s is the beginning of t
IsPrefix(s, t) == Len(s) <= Len(t) /\ SubSeq(t, 1, Len(s)) = s

NoRepeat(s) == \A i, j \in 1..Len(s) : s[i] = s[j] => i = j

\* during the resolution: resolved names no bundle twice and each after its
\* dependencies; unresolved is the stack of the calls in progress, without
\* a repeated name, and is empty between two top-level calls
ResolverInvariant ==
    pc = "resolve" =>
        /\ NoRepeat(resolved)
        /\ DependenciesFirst(resolved)
        /\ unresolved = [i \in 1..Len(frames) |-> frames[i].bundle]
        /\ NoRepeat(unresolved)
        /\ frames = <<>> => unresolved = <<>>

\* a step of the resolution only appends to resolved, and the return of a
\* call for a bundle that is in resolved leaves resolved as it is
ResolverStep ==
    /\ pc = "resolve" => IsPrefix(resolved, resolved')
    /\ (pc = "resolve" /\ frames # <<>> /\ Len(frames') < Len(frames)
          /\ pc' = "resolve" /\ InSeq(Top.bundle, resolved)) => resolved' = resolved

\* C22: during the resolution resolved is append-only, without a repeated
\* name and dependency-closed; resolving a bundle that is in resolved leaves
\* it unchanged; unresolved is the recursion stack, without a repeated name,
\* and empty after each successful top-level call.
C22_ResolvedAndActivePath == []ResolverInvariant /\ [][ResolverStep]_vars

\* a call for a bundle that is already in resolved is about to return, one
\* call below it on the stack
C22_ReturningForResolved ==
    /\ pc = "resolve"
    /\ Len(frames) = 2
    /\ Top.i > Len(DependsOn(Top.bundle))
    /\ InSeq(Top.bundle, resolved)
    /\ unresolved = <<frames[1].bundle, Top.bundle>>

\* ------------------------------------------------------------------------
\* C23

\* the resolution is over: with every bundle in resolved, or with an error
ResolutionEnded ==
    \/ pc = "register" /\ {resolved[i] : i \in 1..Len(resolved)} = BundleNames
    \/ pc = "returned" /\ retErr.kind \in ResolveErrorKinds

\* a number above the number of dependencies a call can still have to visit
Base == 3 + Cardinality(UNION {DOMAIN a.bundles[n].dependsOn : n \in BundleNames})

\* the dependencies that the call at depth d has not begun to visit, the
\* one a call above it is visiting not counted
Remaining(d) ==
    Len(a.bundles[frames[d].bundle].dependsOn) - frames[d].i
      + (IF d = Len(frames) THEN 1 ELSE 0)

\* what is left to do for the calls up to depth d: a call counts for more
\* than everything the calls above it can still do
RECURSIVE StackMeasure(_)
StackMeasure(d) ==
    IF d = 0 THEN 0
    ELSE StackMeasure(d - 1) + 1
         + Remaining(d) * Base ^ (IF d <= Cardinality(BundleNames)
                                  THEN Cardinality(BundleNames) - d ELSE 0)

\* what is left of the resolution: the bundles the range loop has not
\* visited, and the calls in progress
Measure ==
    Cardinality(todo) * Base ^ (Cardinality(BundleNames) + 1)
      + StackMeasure(Len(frames))

\* a step of the resolution ends it or leaves less to do
ResolveStep ==
    pc = "resolve" => (ResolutionEnded' \/ (pc' = "resolve" /\ Measure' < Measure))

\* the resolution in progress has a step to take, is not nested deeper than
\* there are bundles, and what is left to do is no negative amount
ResolveBounded ==
    pc = "resolve" =>
        /\ Len(frames) <= Cardinality(BundleNames)
        /\ Measure >= 0
        /\ ENABLED Resolve

\* C23: the calls of resolveDependencies are never nested deeper than there
\* are bundles, and the resolution ends, with every bundle resolved or with
\* an error, whatever the bundle set: it always has a step to take, and each
\* step ends it or lessens a natural number.
C23_ResolutionTerminates == []ResolveBounded /\ [][ResolveStep]_vars

\* the resolution of a cycle through all three bundles has ended with the
\* error, three calls deep
C23_CycleEndedAtFullDepth ==
    /\ pc = "returned"
    /\ retErr.kind = CircularKind
    /\ Cardinality(BundleNames) = 3
    /\ Len(unresolved) = 3

\* ------------------------------------------------------------------------
\* C24

\* C24: the version of a Version option is under app.version in the context
\* of the application NewApp returns, and in the context the commands of an
\* Execute call are built with, whatever other options are supplied and in
\* whatever order.
C24_VersionKept ==
    /\ retApp => VersionOutput(a.ctx) = ConfiguredVersion
    /\ \A p \in Callers :
          root[p] \in {"prerun", "body", "finished"} =>
              VersionOutput(cmdCtx[p]) = ConfiguredVersion

\* ------------------------------------------------------------------------
\* C25

\* the calls whose container is built and not deleted
Live == {p \in Callers : container[p] = "built"}

\* C25: at most one container of the application is built and not deleted;
\* it is that of the call holding the lock, and a call that has released the
\* lock has deleted the container it built.
C25_OneLiveContainer ==
    /\ Cardinality(Live) <= 1
    /\ \A p \in Live : mux = p /\ epc[p] \in {"notify", "fill", "run", "teardown", "delete"}
    /\ \A p \in Callers : (epc[p] = "done" /\ container[p] # "none") => container[p] = "deleted"

\* a call has built its container after the call before it has deleted its
\* own and returned
C25_BuiltAfterDelete ==
    \E p, q \in Callers :
        /\ epc[p] = "done"
        /\ container[p] = "deleted"
        /\ container[q] = "built"

\* ------------------------------------------------------------------------
\* C26

\* Execute has returned from call p and the lock is not p's
Returned(p) == epc[p] = "done" /\ mux # p

\* the command of some call is running
CommandRunning == \E p \in Callers : root[p] \in {"prerun", "body", "finished"}

\* C26: once the root command has returned, or its resolution or the path
\* resolution has failed, Execute cancels the context and deletes the
\* container if it built one, releases the lock and returns; a call waiting
\* for the lock gets it, unless a command runs forever.
C26_ExecuteReturns ==
    /\ \A p \in Callers :
          (root[p] = "returned") ~>
              (Returned(p) /\ p \in canceled /\ container[p] = "deleted")
    /\ \A p \in Callers :
          (epc[p] = "teardown" /\ err[p] = ErrFill) ~>
              (Returned(p) /\ p \in canceled /\ container[p] = "deleted")
    /\ \A p \in Callers :
          (err[p] = ErrPath) ~> (Returned(p) /\ container[p] = "none")
    /\ \A q \in Callers :
          \/ (epc[q] = "lock") ~> (epc[q] # "lock")
          \/ <>[]CommandRunning

\* the root command of a call has returned while another call waits for
\* the lock
C26_ReturnedWhileOtherWaits ==
    \E p, q \in Callers :
        /\ root[p] = "returned"
        /\ epc[p] = "teardown"
        /\ epc[q] = "lock"

====
